---- MODULE Spec2Model ----
(***************************************************************************)
(* Model of display_controller.py: the DisplayController render loop       *)
(* (start), the frame dispatcher (_draw_frame), the two bounce-scroll      *)
(* handlers, the MQTT message handler (_on_message) that runs on the       *)
(* ingress thread, the hardware setters and the signal handler (stop).     *)
(*                                                                         *)
(* The render loop is one process whose position is pc; the message        *)
(* handler and the signal handler are atomic steps that interleave with    *)
(* the loop's steps.  The wall clock is the integer now; it moves while    *)
(* the loop sleeps.                                                        *)
(***************************************************************************)
EXTENDS Integers, Sequences, FiniteSets, TLC

\* ------------------------------------------------------------------ bounds
\* Spec: the loop, the connection to the broker, the messages and the
\* signal.  A sleep returns within the second, or is late by MidDelay or by
\* MaxDelay seconds.
MaxTime == 7
MaxDelay == 6
MidDelay == 3
MaxEvents == 1
MaxFaults == 1
NumCustomLines == 5
\* SpecMode: the clock stands still; the broker sends mode and text
\* messages.
MaxModeEvents == 3
\* SpecClock: no message arrives and the clock runs long enough for the
\* rotation to wrap.  SpecRot: as long, with mode messages, and every sleep
\* either returns within the second or is late by MaxDelay.
MaxRotTime == 25
MaxRotEvents == 1
\* SpecWatch: the clock runs until the rotation has reached the custom
\* screen.
MaxWatchTime == 14
\* SpecRace: the text messages after the two that lead to the start state.
MaxRaceEvents == 1
\* SpecPower: the clock stands still; the broker sends messages of every
\* kind, enough of them to enter the off mode and to leave it.
MaxPowerEvents == 2
\* SpecIdx: the clock of SpecRot; the broker sends enough messages to
\* leave the auto mode and to return to it.
MaxIdxEvents == 2

\* ------------------------------------------------------- program constants
REFRESH_INTERVAL == 5
HEIGHT == 64
FONT_SIZE == 10
HEADER_H == 14
MAX_BRIGHTNESS == 255
DEFAULT_BRIGHTNESS == 255
INITIAL_PAUSE == 20
BOUNCE_PAUSE == 30
SYSTEM_CACHE_INTERVAL == 2
NETWORK_CACHE_INTERVAL == 3

line_height == FONT_SIZE + 2
visible_h == HEIGHT - HEADER_H

screens == <<"system", "network", "custom", "qr">>

\* The names _draw_frame and start treat as a mode of their own.
ModeNames == {"auto", "system", "network", "custom", "qr", "text", "off"}

\* Topics the client subscribes to (Config.MQTT_TOPICS without status, plus
\* the topic of a custom line).
TopicMode == "screen/mode"
TopicText == "screen/text"
TopicBrightness == "screen/brightness"
TopicCustom == "sensor/temp"
\* No topic of Config.MQTT_TOPICS carries a refresh interval; a message
\* of this name reaches the client only as the topic of a custom line.
TopicRefresh == "screen/refresh_interval"
Topics == {TopicMode, TopicText, TopicBrightness, TopicCustom, TopicRefresh}

None == "None"
\* A payload whose bytes are not valid UTF-8.
BadBytes == "\\xff"
\* No message is being delivered.
NoMsg == [topic |-> None, payload |-> None]
\* No status snapshot is handed to client.publish.
NoStatus == [mode |-> None, brightness |-> 0, screen_on |-> FALSE,
             current_screen |-> None]
\* A telemetry snapshot is known by the time it was collected at.  NoInfo
\* is the None of an empty cache slot, Placeholder the literal of lines 117
\* and 127.
Snapshot(t) == [kind |-> "data", at |-> t]
NoInfo == [kind |-> "none", at |-> 0]
Placeholder == [kind |-> "default", at |-> 0]

\* ------------------------------------------------------------ pure helpers
\* The characters of each payload string the model sends.
Chars(s) ==
    CASE s = "999" -> <<"9", "9", "9">>
      [] s = "-10" -> <<"-", "1", "0">>
      [] s = "128" -> <<"1", "2", "8">>
      [] s = "+7"  -> <<"+", "7">>
      [] s = "abc" -> <<"a", "b", "c">>
      [] s = "21"  -> <<"2", "1">>
      [] s = "2"   -> <<"2">>
      [] s = "hi"  -> <<"h", "i">>
      [] s = "a\nb\nc\nd\ne\nf" ->
            <<"a", "\n", "b", "\n", "c", "\n", "d", "\n", "e", "\n", "f">>
      [] OTHER -> <<>>

DigitValue(c) ==
    CASE c = "0" -> 0 [] c = "1" -> 1 [] c = "2" -> 2 [] c = "3" -> 3
      [] c = "4" -> 4 [] c = "5" -> 5 [] c = "6" -> 6 [] c = "7" -> 7
      [] c = "8" -> 8 [] c = "9" -> 9 [] OTHER -> -1

RECURSIVE DigitsValue(_, _)
\* The value of a digit sequence, or -1 when a character is no digit.
DigitsValue(cs, acc) ==
    IF cs = <<>> THEN acc
    ELSE IF DigitValue(Head(cs)) < 0 THEN -1
    ELSE DigitsValue(Tail(cs), 10 * acc + DigitValue(Head(cs)))

\* int(payload): an optional sign, then one or more digits; anything else
\* raises ValueError.
ParseInt(s) ==
    LET cs == Chars(s)
        signed == cs # <<>> /\ Head(cs) \in {"-", "+"}
        ds == IF signed THEN Tail(cs) ELSE cs
        v == IF ds = <<>> THEN -1 ELSE DigitsValue(ds, 0)
    IN  IF v < 0 THEN [ok |-> FALSE, val |-> 0]
        ELSE [ok |-> TRUE, val |-> IF signed /\ Head(cs) = "-" THEN 0 - v ELSE v]

Min(a, b) == IF a < b THEN a ELSE b
Max(a, b) == IF a > b THEN a ELSE b

\* Clamp without the lower limit: min(255, value).
Clamp_UpperOnly(v) == Min(MAX_BRIGHTNESS, v)

\* max(0, min(255, value))
Clamp(v) == Max(0, Min(MAX_BRIGHTNESS, v))

RECURSIVE CountNewlines(_)
CountNewlines(cs) ==
    IF cs = <<>> THEN 0
    ELSE (IF Head(cs) = "\n" THEN 1 ELSE 0) + CountNewlines(Tail(cs))

\* len(text.split('\n')) * line_height
get_text_content_height(text) == (CountNewlines(Chars(text)) + 1) * line_height

\* len(Config.CUSTOM_LINES) * line_height
get_custom_content_height == NumCustomLines * line_height

\* ResolveScreen without the test of the mode: the rotation screen is shown
\* in every mode.
ResolveScreen_IgnoresMode(m, idx) == screens[idx + 1]

\* self.screens[self.screen_idx] if self.mode == 'auto' else self.mode
ResolveScreen(m, idx) == IF m = "auto" THEN screens[idx + 1] ELSE m

\* ----------------------------------------------------------------- inputs
ModePayloads == ModeNames \cup {"bogus"}
TextPayloads == {"hi", "a\nb\nc\nd\ne\nf"}
BrightnessPayloads == {"999", "-10", "128", "+7", "abc"}

Messages ==
    [topic : {TopicMode}, payload : ModePayloads]
    \cup [topic : {TopicText}, payload : TextPayloads \cup {BadBytes}]
    \cup [topic : {TopicBrightness}, payload : BrightnessPayloads]
    \cup [topic : {TopicCustom}, payload : {"21"}]
    \cup [topic : {TopicRefresh}, payload : {"2", "abc"}]

\* ------------------------------------------------------------------ state
VARIABLES
    \* DisplayController fields
    mode, screen_idx, custom_data, current_text, brightness, screen_on,
    scroll_y, scroll_direction, scroll_wait,
    text_scroll_y, text_scroll_direction, text_scroll_wait,
    running,
    \* the render loop: its position and the locals of start()
    pc, loop_start, last_screen_change, current_screen, total_h, reg,
    \* the wall clock, and the message the ingress thread is delivering
    now, msg,
    \* the ingress thread: the number of Thread objects made after the
    \* first, whether the current one is alive, the flag the connection
    \* callbacks keep, and the snapshot the step just taken handed to
    \* client.publish on the status topic
    mqtt_thread, mqtt_alive, mqtt_connected, published,
    \* SystemMonitor: the two cache slots and the snapshot handed to the
    \* renderer of the frame being drawn
    system_cache, system_cache_time, network_cache, network_cache_time, info,
    \* the panel: contrast applied, power state, last frame committed, and
    \* the canvas of the frame being drawn
    oled_contrast, oled_visible, oled_image, canvas,
    \* history: messages delivered, exceptions raised, rotation advances,
    \* whether every tick so far began within REFRESH_INTERVAL of the one
    \* before, and the oled.hide() calls _draw_frame made since mode last
    \* became off; advancedAt is the clock at the last rotation advance
    evCount, faults, advances, advancedAt, cadenceOK, hideCalls, hideOK,
    offDrawn

scrollV == <<scroll_y, scroll_direction, scroll_wait>>
scrollT == <<text_scroll_y, text_scroll_direction, text_scroll_wait>>
fields == <<mode, screen_idx, custom_data, current_text, brightness, screen_on>>
locals == <<loop_start, last_screen_change, current_screen, total_h, reg>>
ingress == <<mqtt_thread, mqtt_alive, mqtt_connected>>
monitor == <<system_cache, system_cache_time, network_cache,
             network_cache_time, info>>
panel == <<oled_contrast, oled_visible, oled_image, canvas>>
offHist == <<hideCalls, hideOK, offDrawn>>
rotHist == <<advances, advancedAt, cadenceOK>>

vars == <<fields, scrollV, scrollT, running, pc, locals, now, msg, ingress,
          published, monitor, panel, evCount, faults, offHist, rotHist>>

Init ==
    /\ mode = "auto"
    /\ screen_idx = 0
    /\ custom_data = [t \in Topics |-> None]
    /\ current_text = ""
    /\ brightness = DEFAULT_BRIGHTNESS
    /\ screen_on = TRUE
    /\ scroll_y = 0 /\ scroll_direction = 1 /\ scroll_wait = 0
    /\ text_scroll_y = 0 /\ text_scroll_direction = 1 /\ text_scroll_wait = 0
    /\ running = TRUE
    /\ pc = "loop"
    /\ loop_start = 0
    /\ last_screen_change = 0
    /\ current_screen = "system"
    /\ total_h = 0
    /\ reg = 0
    /\ now = 0
    /\ msg = NoMsg
    /\ mqtt_thread = 0
    /\ mqtt_alive = TRUE
    /\ mqtt_connected = FALSE
    /\ published = NoStatus
    /\ system_cache = NoInfo /\ system_cache_time = 0
    /\ network_cache = NoInfo /\ network_cache_time = 0
    /\ info = NoInfo
    /\ oled_contrast = DEFAULT_BRIGHTNESS
    /\ oled_visible = TRUE
    /\ oled_image = "blank"
    /\ canvas = None
    /\ evCount = 0
    /\ faults = 0
    /\ advances = 0
    /\ advancedAt = 0
    /\ cadenceOK = TRUE
    /\ hideCalls = 0 /\ hideOK = 0 /\ offDrawn = FALSE

\* ------------------------------------------------------- the render loop
\* Rotate with >= for the > of line 476: the advance is taken on the tick at
\* which exactly REFRESH_INTERVAL has passed.
Rotate_AtInterval(m, idx, last, t) ==
    IF m = "auto" /\ t - last >= REFRESH_INTERVAL
    THEN [idx |-> (idx + 1) % Len(screens), last |-> t, advanced |-> TRUE]
    ELSE [idx |-> idx, last |-> last, advanced |-> FALSE]

\* Rotate without the test of the mode in line 475: the rotation advances
\* in every mode.
Rotate_AnyMode(m, idx, last, t) ==
    IF t - last > REFRESH_INTERVAL
    THEN [idx |-> (idx + 1) % Len(screens), last |-> t, advanced |-> TRUE]
    ELSE [idx |-> idx, last |-> last, advanced |-> FALSE]

\* Rotate without line 478: the time of the advance is not recorded.
Rotate_KeepsTimestamp(m, idx, last, t) ==
    IF m = "auto" /\ t - last > REFRESH_INTERVAL
    THEN [idx |-> (idx + 1) % Len(screens), last |-> last, advanced |-> TRUE]
    ELSE [idx |-> idx, last |-> last, advanced |-> FALSE]

\* Lines 475-482: the rotation decision of one tick, as the new values of
\* <<screen_idx, last_screen_change, advanced>>.
Rotate(m, idx, last, t) ==
    IF m = "auto" /\ t - last > REFRESH_INTERVAL
    THEN [idx |-> (idx + 1) % Len(screens), last |-> t, advanced |-> TRUE]
    ELSE [idx |-> idx, last |-> last, advanced |-> FALSE]

\* Lines 446-451: the snapshot _publish_status builds from the fields.
Status(m, b, on, idx) ==
    [mode |-> m, brightness |-> b, screen_on |-> on,
     current_screen |-> ResolveScreen(m, idx)]

\* _publish_status that never publishes.
PublishStatus_Never(connected, snap) == NoStatus

\* Lines 442-454: _publish_status hands the snapshot to client.publish when
\* mqtt_connected is set, and does nothing otherwise.  The call is taken to
\* return.
PublishStatus(connected, snap) == IF connected THEN snap ELSE NoStatus

\* A loop without the watchdog of lines 470-472.
WatchdogNeeded_Never == FALSE

\* Line 470: self.mqtt_thread is set since line 461, so the restart is due
\* exactly when the thread is not alive.
WatchdogNeeded == ~mqtt_alive

\* Lines 465-484: the top of one loop iteration: the watchdog, the rotation
\* decision and the resolution of the screen.  _start_mqtt_thread (lines
\* 502-506) makes a new Thread object and starts it; when start() raises,
\* the handler of line 498 ends the iteration.
LoopTop ==
    /\ running /\ pc = "loop"
    /\ loop_start' = now
    /\ cadenceOK' = (cadenceOK /\ now - loop_start <= REFRESH_INTERVAL)
    /\ \/ /\ WatchdogNeeded /\ faults < MaxFaults
          /\ faults' = faults + 1
          /\ pc' = "sleep"
          /\ published' = NoStatus
          /\ mqtt_thread' = mqtt_thread + 1
          /\ UNCHANGED <<mqtt_alive, screen_idx, last_screen_change, scrollV,
                         advances, advancedAt, current_screen>>
       \/ /\ mqtt_alive' = (mqtt_alive \/ WatchdogNeeded)
          /\ mqtt_thread' = mqtt_thread + (IF WatchdogNeeded THEN 1 ELSE 0)
          /\ LET r == Rotate(mode, screen_idx, last_screen_change, now) IN
              /\ screen_idx' = r.idx
              /\ last_screen_change' = r.last
              /\ IF r.advanced
                 THEN /\ scroll_y' = 0 /\ scroll_direction' = 1
                      /\ scroll_wait' = INITIAL_PAUSE
                      /\ advances' = advances + 1
                      /\ advancedAt' = now
                      /\ published' =
                            PublishStatus(mqtt_connected,
                                Status(mode, brightness, screen_on, r.idx))
                 ELSE /\ UNCHANGED <<scrollV, advances, advancedAt>>
                      /\ published' = NoStatus
              /\ current_screen' = ResolveScreen(mode, r.idx)
          /\ pc' = "scroll"
          /\ UNCHANGED faults
    /\ UNCHANGED <<mode, custom_data, current_text, brightness, screen_on,
                   scrollT, running, total_h, reg, now, msg, mqtt_connected,
                   monitor, panel, evCount, offHist>>

\* Bounce that wraps: past the last line the offset starts again at 0.
Bounce_Wraps(y, dir, wait, max_scroll) ==
    IF y >= max_scroll THEN <<0, 1, BOUNCE_PAUSE>>
    ELSE IF y <= 0 THEN <<0, 1, BOUNCE_PAUSE>>
    ELSE <<y, dir, wait>>

\* Bounce that turns at the limits without arming the pause.
Bounce_NoPause(y, dir, wait, max_scroll) ==
    IF y >= max_scroll THEN <<max_scroll, -1, wait>>
    ELSE IF y <= 0 THEN <<0, 1, wait>>
    ELSE <<y, dir, wait>>

\* Lines 523-534 and 550-560: the offset just stored and the bounce at the
\* two limits, as the new <<offset, direction, wait>>.
Bounce(y, dir, wait, max_scroll) ==
    IF y >= max_scroll THEN <<max_scroll, -1, BOUNCE_PAUSE>>
    ELSE IF y <= 0 THEN <<0, 1, BOUNCE_PAUSE>>
    ELSE <<y, dir, wait>>

\* A short-content branch that keeps the offset it finds.
PinnedOffset_Keeps(y) == y

\* Lines 515 and 543: content that fits is shown from its top.
PinnedOffset(y) == 0

\* Lines 487-490 with the reads of _handle_vertical_scroll and
\* _handle_text_scroll: the content height is taken (lines 510, 538), the
\* short-content case is decided, and the value of a read-modify-write is
\* loaded into reg.  total_h and reg are locals of the handler: they hold
\* a value from here to the store that ends the handler.
ScrollLoad ==
    /\ running /\ pc = "scroll"
    /\ IF current_screen = "custom"
       THEN IF get_custom_content_height <= visible_h
               THEN /\ scroll_y' = PinnedOffset(scroll_y) /\ pc' = "power"
                    /\ UNCHANGED <<scroll_direction, scroll_wait, scrollT, reg, total_h>>
               ELSE IF scroll_wait > 0
               THEN /\ reg' = scroll_wait - 1 /\ pc' = "wait_store"
                    /\ total_h' = get_custom_content_height
                    /\ UNCHANGED <<scrollV, scrollT>>
               ELSE /\ reg' = scroll_y + scroll_direction /\ pc' = "move_store"
                    /\ total_h' = get_custom_content_height
                    /\ UNCHANGED <<scrollV, scrollT>>
       ELSE IF current_screen = "text"
       THEN IF get_text_content_height(current_text) <= visible_h
               THEN /\ text_scroll_y' = PinnedOffset(text_scroll_y)
                    /\ pc' = "power"
                    /\ UNCHANGED <<text_scroll_direction, text_scroll_wait,
                                   scrollV, reg, total_h>>
               ELSE IF text_scroll_wait > 0
               THEN /\ reg' = text_scroll_wait - 1 /\ pc' = "wait_store"
                    /\ total_h' = get_text_content_height(current_text)
                    /\ UNCHANGED <<scrollV, scrollT>>
               ELSE /\ reg' = text_scroll_y + text_scroll_direction
                    /\ pc' = "move_store"
                    /\ total_h' = get_text_content_height(current_text)
                    /\ UNCHANGED <<scrollV, scrollT>>
       ELSE /\ pc' = "power" /\ UNCHANGED <<scrollV, scrollT, total_h, reg>>
    /\ published' = NoStatus
    /\ UNCHANGED <<fields, running, loop_start, last_screen_change,
                   current_screen, now, msg, ingress, monitor, panel, evCount,
                   faults, offHist, rotHist>>

\* Lines 520 and 547: the store of the decremented pause counter.
WaitStore ==
    /\ running /\ pc = "wait_store"
    /\ IF current_screen = "custom"
       THEN scroll_wait' = reg /\ UNCHANGED <<scroll_y, scroll_direction, scrollT>>
       ELSE text_scroll_wait' = reg
            /\ UNCHANGED <<text_scroll_y, text_scroll_direction, scrollV>>
    /\ pc' = "power"
    /\ published' = NoStatus
    /\ total_h' = 0 /\ reg' = 0
    /\ UNCHANGED <<fields, running, loop_start, last_screen_change,
                   current_screen, now, msg, ingress, monitor, panel,
                   evCount, faults, offHist, rotHist>>

\* Lines 523-534 and 550-560: the store of the moved offset and the bounce
\* against max_scroll = total_h - visible_h.
MoveStore ==
    /\ running /\ pc = "move_store"
    /\ IF current_screen = "custom"
       THEN LET b == Bounce(reg, scroll_direction, scroll_wait,
                            total_h - visible_h)
            IN  /\ scroll_y' = b[1] /\ scroll_direction' = b[2]
                /\ scroll_wait' = b[3]
                /\ UNCHANGED scrollT
       ELSE LET b == Bounce(reg, text_scroll_direction, text_scroll_wait,
                            total_h - visible_h)
            IN  /\ text_scroll_y' = b[1] /\ text_scroll_direction' = b[2]
                /\ text_scroll_wait' = b[3]
                /\ UNCHANGED scrollV
    /\ pc' = "power"
    /\ published' = NoStatus
    /\ total_h' = 0 /\ reg' = 0
    /\ UNCHANGED <<fields, running, loop_start, last_screen_change,
                   current_screen, now, msg, ingress, monitor, panel,
                   evCount, faults, offHist, rotHist>>

\* _set_screen_state without lines 431 and 435: the panel is switched and
\* the flag is left as it was.
SetScreenState_KeepsFlag(on) ==
    /\ \/ /\ oled_visible' = on
          /\ published' = PublishStatus(mqtt_connected,
                              Status(mode, brightness, screen_on, screen_idx))
          /\ UNCHANGED <<screen_on, faults>>
       \/ /\ faults < MaxFaults
          /\ faults' = faults + 1
          /\ published' = NoStatus
          /\ UNCHANGED <<screen_on, oled_visible>>
    /\ IF ~on /\ mode = "off"
       THEN /\ hideCalls' = hideCalls + 1
            /\ hideOK' = hideOK + (IF oled_visible' = on THEN 1 ELSE 0)
       ELSE UNCHANGED <<hideCalls, hideOK>>

\* Lines 427-440: _set_screen_state(on).  The panel call returns and the
\* state is stored, or it raises and the error is logged.  A call with on
\* false is a call of oled.hide().
SetScreenState(on) ==
    /\ \/ /\ screen_on' = on
          /\ oled_visible' = on
          /\ published' = PublishStatus(mqtt_connected,
                              Status(mode, brightness, on, screen_idx))
          /\ UNCHANGED faults
       \/ /\ faults < MaxFaults
          /\ faults' = faults + 1
          /\ published' = NoStatus
          /\ UNCHANGED <<screen_on, oled_visible>>
    /\ IF ~on /\ mode = "off"
       THEN /\ hideCalls' = hideCalls + 1
            /\ hideOK' = hideOK + (IF screen_on' = on THEN 1 ELSE 0)
       ELSE UNCHANGED <<hideCalls, hideOK>>

\* _draw_frame without the branch of line 566: off is drawn like a screen.
TargetIsOff_Never(screen_name) == FALSE

\* _draw_frame that takes the branch of line 566 for every screen.
TargetIsOff_Always(screen_name) == TRUE

\* Line 566: if screen_name == 'off'
TargetIsOff(screen_name) == screen_name = "off"

\* _draw_frame without the test of line 567: every off frame calls hide.
HideNeeded_Always == TRUE

\* Line 567: if self.screen_on
HideNeeded == screen_on

\* Lines 566-572: the power handling at the head of _draw_frame.
Power ==
    /\ running /\ pc = "power"
    /\ IF TargetIsOff(current_screen)
       THEN /\ pc' = "sleep"
            /\ IF HideNeeded
               THEN SetScreenState(FALSE)
               ELSE /\ published' = NoStatus
                    /\ UNCHANGED <<screen_on, oled_visible, faults, hideCalls,
                                   hideOK>>
            /\ offDrawn' = (offDrawn \/ mode = "off")
       ELSE /\ pc' = "render"
            /\ IF ~screen_on
               THEN SetScreenState(TRUE)
               ELSE /\ published' = NoStatus
                    /\ UNCHANGED <<screen_on, oled_visible, faults, hideCalls,
                                   hideOK>>
            /\ UNCHANGED offDrawn
    /\ UNCHANGED <<mode, screen_idx, custom_data, current_text, brightness,
                   scrollV, scrollT, running, locals, now, msg, ingress,
                   monitor, oled_contrast, oled_image, canvas, evCount,
                   rotHist>>

\* What the dispatch of lines 575-584 paints for a screen name: a name
\* without a branch leaves the canvas blank.
Painted(screen_name) ==
    IF screen_name \in {"system", "qr", "custom", "network", "text"}
    THEN screen_name ELSE "blank"

\* A cache whose entries never expire.
CacheValid_Always(cache, cache_time, t, interval) == cache # NoInfo

\* Lines 91 and 124, with use_cache true as at both call sites (lines 250
\* and 296): the slot is filled and younger than the interval.
CacheValid(cache, cache_time, t, interval) ==
    cache # NoInfo /\ t - cache_time < interval

\* Lines 86-117: get_system_info.  A valid cache entry is returned; else
\* the collection returns and fills the cache, or it raises and the read
\* answers with the cache entry it has, or the placeholder when it has none.
GetSystemInfo ==
    IF CacheValid(system_cache, system_cache_time, now, SYSTEM_CACHE_INTERVAL)
    THEN /\ info' = system_cache
         /\ UNCHANGED <<system_cache, system_cache_time, faults>>
    ELSE \/ /\ info' = Snapshot(now)
            /\ system_cache' = Snapshot(now)
            /\ system_cache_time' = now
            /\ UNCHANGED faults
         \/ /\ faults < MaxFaults
            /\ faults' = faults + 1
            /\ info' = (IF system_cache # NoInfo THEN system_cache
                        ELSE Placeholder)
            /\ UNCHANGED <<system_cache, system_cache_time>>

\* Lines 119-170: get_network_info.  A valid cache entry is returned; else
\* a snapshot is collected and cached.  A probe that raises is caught where
\* it is made (lines 136, 146, 160) and leaves its field of the fresh
\* snapshot at the default, so the handler of line 168 has nothing to catch.
GetNetworkInfo ==
    IF CacheValid(network_cache, network_cache_time, now,
                  NETWORK_CACHE_INTERVAL)
    THEN /\ info' = network_cache
         /\ UNCHANGED <<network_cache, network_cache_time, faults>>
    ELSE /\ info' = Snapshot(now)
         /\ network_cache' = Snapshot(now)
         /\ network_cache_time' = now
         /\ \/ UNCHANGED faults
            \/ /\ faults < MaxFaults
               /\ faults' = faults + 1

\* Lines 574-584: the canvas is acquired and the renderer returns; the
\* system and network renderers read the monitor (lines 250, 296).
RenderOk ==
    /\ running /\ pc = "render"
    /\ canvas' = Painted(current_screen)
    /\ pc' = "flush"
    /\ CASE current_screen = "system" ->
                GetSystemInfo /\ UNCHANGED <<network_cache, network_cache_time>>
         [] current_screen = "network" ->
                GetNetworkInfo /\ UNCHANGED <<system_cache, system_cache_time>>
         [] OTHER ->
                /\ info' = NoInfo
                /\ UNCHANGED <<system_cache, system_cache_time, network_cache,
                               network_cache_time, faults>>
    /\ published' = NoStatus
    /\ UNCHANGED <<fields, scrollV, scrollT, running, locals, now, msg,
                   ingress, oled_contrast, oled_visible, oled_image, evCount,
                   offHist, rotHist>>

\* _draw_frame without its except clause, under a loop without one: the
\* renderer's exception ends start().
RenderRaise_Crashes ==
    /\ running /\ pc = "render"
    /\ faults < MaxFaults
    /\ faults' = faults + 1
    /\ canvas' = None
    /\ pc' = "crashed"
    /\ published' = NoStatus
    /\ UNCHANGED <<fields, scrollV, scrollT, running, locals, now, msg,
                   ingress, monitor, oled_contrast, oled_visible, oled_image,
                   evCount, offHist, rotHist>>

\* Lines 586-587: the renderer raised; the canvas is dropped without a
\* commit and the error is logged.
RenderRaise ==
    /\ running /\ pc = "render"
    /\ faults < MaxFaults
    /\ faults' = faults + 1
    /\ canvas' = None
    /\ pc' = "sleep"
    /\ published' = NoStatus
    /\ UNCHANGED <<fields, scrollV, scrollT, running, locals, now, msg,
                   ingress, monitor, oled_contrast, oled_visible, oled_image,
                   evCount, offHist, rotHist>>

\* Line 574, leaving the with block: the canvas is written to the panel;
\* a failed write is caught at lines 586-587.
Flush ==
    /\ running /\ pc = "flush"
    /\ \/ oled_image' = canvas /\ UNCHANGED faults
       \/ /\ faults < MaxFaults
          /\ faults' = faults + 1
          /\ UNCHANGED oled_image
    /\ canvas' = None
    /\ info' = NoInfo
    /\ pc' = "sleep"
    /\ published' = NoStatus
    /\ UNCHANGED <<fields, scrollV, scrollT, running, locals, now, msg,
                   ingress, system_cache, system_cache_time, network_cache,
                   network_cache_time, oled_contrast, oled_visible, evCount,
                   offHist, rotHist>>

\* Line 496: time.sleep(0.06); the clock moves by d while the loop is away.
Sleep(delays, maxTime) ==
    /\ running /\ pc = "sleep"
    /\ \E d \in delays :
        /\ now + d <= maxTime
        /\ now' = now + d
    /\ pc' = "loop"
    /\ published' = NoStatus
    /\ UNCHANGED <<fields, scrollV, scrollT, running, locals, msg, ingress,
                   monitor, panel, evCount, faults, offHist, rotHist>>

\* ---------------------------------------------------- the ingress thread
\* Lines 616-635: _on_connect.  With rc 0 the flag is set, the topics are
\* subscribed and the status is published; any other rc clears the flag.
OnConnect ==
    /\ running /\ mqtt_alive /\ ~mqtt_connected /\ msg = NoMsg
    /\ \E rc \in {0, 5} :
        IF rc = 0
        THEN /\ mqtt_connected' = TRUE
             /\ published' = PublishStatus(TRUE,
                                 Status(mode, brightness, screen_on, screen_idx))
        ELSE /\ mqtt_connected' = FALSE
             /\ published' = NoStatus
    /\ UNCHANGED <<fields, scrollV, scrollT, running, pc, locals, now, msg,
                   mqtt_thread, mqtt_alive, monitor, panel, evCount, faults,
                   offHist, rotHist>>

\* Lines 637-639: _on_disconnect; the connection to the broker is lost.
OnDisconnect(maxEvents) ==
    /\ running /\ mqtt_alive /\ mqtt_connected /\ msg = NoMsg
    /\ evCount < maxEvents
    /\ evCount' = evCount + 1
    /\ mqtt_connected' = FALSE
    /\ published' = NoStatus
    /\ UNCHANGED <<fields, scrollV, scrollT, running, pc, locals, now, msg,
                   mqtt_thread, mqtt_alive, monitor, panel, faults, offHist,
                   rotHist>>

\* Lines 604-614: _mqtt_loop ends although the controller runs: an
\* exception that is no Exception leaves the while loop.  No callback runs
\* for it, so mqtt_connected stays as it is.
MqttThreadDies ==
    /\ running /\ mqtt_alive /\ msg = NoMsg
    /\ faults < MaxFaults
    /\ faults' = faults + 1
    /\ mqtt_alive' = FALSE
    /\ published' = NoStatus
    /\ UNCHANGED <<fields, scrollV, scrollT, running, pc, locals, now, msg,
                   mqtt_thread, mqtt_connected, monitor, panel, evCount,
                   offHist, rotHist>>

\* The broker hands the client one message of a subscribed topic.
Publish(msgs, maxEvents) ==
    /\ running /\ mqtt_alive /\ mqtt_connected /\ msg = NoMsg
    /\ evCount < maxEvents
    /\ \E m \in msgs : msg' = m
    /\ evCount' = evCount + 1
    /\ published' = NoStatus
    /\ UNCHANGED <<fields, scrollV, scrollT, running, pc, locals, now, ingress,
                   monitor, panel, faults, offHist, rotHist>>

\* OnModeMessage with lines 655-657 left out: a mode change that resets the
\* custom scroll only.
OnModeMessage_KeepsTextScroll(payload) ==
    /\ mode' = payload
    /\ IF mode # payload
       THEN /\ scroll_y' = 0 /\ scroll_direction' = 1
            /\ scroll_wait' = INITIAL_PAUSE
            /\ published' = PublishStatus(mqtt_connected,
                                Status(payload, brightness, screen_on, screen_idx))
            /\ UNCHANGED scrollT
       ELSE /\ published' = NoStatus
            /\ UNCHANGED <<scrollV, scrollT>>
    /\ UNCHANGED <<current_text, brightness, oled_contrast, faults>>

\* Lines 647-659: the mode topic.
OnModeMessage(payload) ==
    /\ mode' = payload
    /\ IF mode # payload
       THEN /\ scroll_y' = 0 /\ scroll_direction' = 1
            /\ scroll_wait' = INITIAL_PAUSE
            /\ text_scroll_y' = 0 /\ text_scroll_direction' = 1
            /\ text_scroll_wait' = INITIAL_PAUSE
            /\ published' = PublishStatus(mqtt_connected,
                                Status(payload, brightness, screen_on, screen_idx))
       ELSE /\ published' = NoStatus
            /\ UNCHANGED <<scrollV, scrollT>>
    /\ UNCHANGED <<current_text, brightness, oled_contrast, faults>>

\* OnTextMessage without lines 664-666: the buffer is replaced and the
\* scroll state kept.
OnTextMessage_KeepsScroll(payload) ==
    /\ current_text' = payload
    /\ published' = NoStatus
    /\ UNCHANGED <<mode, scrollV, scrollT, brightness, oled_contrast, faults>>

\* Lines 663-666: the text topic.
OnTextMessage(payload) ==
    /\ current_text' = payload
    /\ text_scroll_y' = 0 /\ text_scroll_direction' = 1
    /\ text_scroll_wait' = INITIAL_PAUSE
    /\ published' = NoStatus
    /\ UNCHANGED <<mode, scrollV, brightness, oled_contrast, faults>>

\* Lines 416-425: _set_brightness(value); the value is stored, and the
\* status published, once oled.contrast has returned, and not at all when
\* it raises.
SetBrightness(value) ==
    \/ /\ oled_contrast' = Clamp(value)
       /\ brightness' = Clamp(value)
       /\ published' = PublishStatus(mqtt_connected,
                           Status(mode, Clamp(value), screen_on, screen_idx))
       /\ UNCHANGED faults
    \/ /\ faults < MaxFaults
       /\ faults' = faults + 1
       /\ published' = NoStatus
       /\ UNCHANGED <<oled_contrast, brightness>>

\* Lines 670-674: the brightness topic.
OnBrightnessMessage(payload) ==
    /\ IF ParseInt(payload).ok
       THEN SetBrightness(ParseInt(payload).val)
       ELSE /\ published' = NoStatus
            /\ UNCHANGED <<brightness, oled_contrast, faults>>
    /\ UNCHANGED <<mode, current_text, scrollV, scrollT>>

\* The history of hide calls restarts when a mode message changes the
\* mode, and is kept only while the mode is off.
OffHistAfter ==
    IF mode' # "off" \/ mode # "off"
    THEN hideCalls' = 0 /\ hideOK' = 0 /\ offDrawn' = FALSE
    ELSE UNCHANGED offHist

\* Lines 641-680: _on_message.  A payload that does not decode raises at
\* line 643 and the handler logs and returns.
OnMessage ==
    /\ running /\ mqtt_alive /\ msg # NoMsg
    /\ msg' = NoMsg
    /\ IF msg.payload = BadBytes
       THEN /\ published' = NoStatus
            /\ UNCHANGED <<mode, current_text, brightness, custom_data,
                           scrollV, scrollT, oled_contrast, faults>>
       ELSE /\ CASE msg.topic = TopicMode -> OnModeMessage(msg.payload)
                 [] msg.topic = TopicText -> OnTextMessage(msg.payload)
                 [] msg.topic = TopicBrightness -> OnBrightnessMessage(msg.payload)
                 [] OTHER -> /\ published' = NoStatus
                             /\ UNCHANGED <<mode, current_text, brightness,
                                            scrollV, scrollT, oled_contrast,
                                            faults>>
            /\ custom_data' = [custom_data EXCEPT ![msg.topic] = msg.payload]
    /\ OffHistAfter
    /\ UNCHANGED <<screen_idx, screen_on, running, pc, locals, now, ingress,
                   monitor, oled_visible, oled_image, canvas, evCount, rotHist>>

\* ------------------------------------------------------------- shutdown
\* Lines 589-602: stop, the SIGTERM/SIGINT handler.  It runs on the main
\* thread between two of the loop's instructions and ends in sys.exit(0),
\* so the loop is left where the signal found it.
Stop ==
    /\ running
    /\ running' = FALSE
    /\ \/ oled_visible' = FALSE /\ UNCHANGED faults
       \/ /\ faults < MaxFaults
          /\ faults' = faults + 1
          /\ UNCHANGED oled_visible
    /\ published' = NoStatus
    /\ UNCHANGED <<fields, scrollV, scrollT, pc, locals, now, msg, ingress,
                   monitor, oled_contrast, oled_image, canvas, evCount,
                   offHist, rotHist>>

\* One step of the render loop.
Tick ==
    \/ LoopTop
    \/ ScrollLoad
    \/ WaitStore
    \/ MoveStore
    \/ Power
    \/ RenderOk
    \/ RenderRaise
    \/ Flush

Next ==
    \/ Tick
    \/ Sleep({0, MidDelay, MaxDelay}, MaxTime)
    \/ OnConnect
    \/ OnDisconnect(MaxEvents)
    \/ Publish(Messages, MaxEvents)
    \/ OnMessage
    \/ Stop

Spec == Init /\ [][Next]_vars

ModeMessages == [topic : {TopicMode}, payload : ModePayloads]
LongText == "a\nb\nc\nd\ne\nf"

\* SpecMode: the modes with a scrolled screen, a mode without, off, and a
\* payload that names no mode; the two texts.
ScrollMessages ==
    [topic : {TopicMode},
     payload : {"system", "custom", "text", "off", "bogus"}]
    \cup [topic : {TopicText}, payload : TextPayloads]

NextMode ==
    \/ Tick
    \/ Sleep({0}, 0)
    \/ OnConnect
    \/ Publish(ScrollMessages, MaxModeEvents)
    \/ OnMessage

SpecMode == Init /\ [][NextMode]_vars

\* The frame time is zero, a short one, the rotation interval, or the longest
\* delay: the elapsed time can land on the interval exactly or pass it.
NextClock ==
    \/ Tick
    \/ Sleep({0, MidDelay, REFRESH_INTERVAL, MaxDelay}, MaxRotTime)

SpecClock == Init /\ [][NextClock]_vars

NextRot ==
    \/ Tick
    \/ Sleep({0, MaxDelay}, MaxRotTime)
    \/ OnConnect
    \/ Publish(ModeMessages, MaxRotEvents)
    \/ OnMessage

SpecRot == Init /\ [][NextRot]_vars

\* SpecWatch: the loop, the signal and the death of the ingress thread.
\* The loop is the main thread of the process: a step of it that can be
\* taken is taken.
NextWatch ==
    \/ Tick
    \/ Sleep({0, MaxDelay}, MaxWatchTime)
    \/ MqttThreadDies
    \/ Stop

SpecWatch ==
    /\ Init /\ [][NextWatch]_vars
    /\ WF_vars(Tick)
    /\ WF_vars(Sleep({0, MaxDelay}, MaxWatchTime))

\* SpecScroll: the loop alone, with the clock standing still, started in
\* the state in which a text message and then a mode message for the
\* custom or the text screen have been handled before the first tick: both
\* scroll states are the reset ones.
InitScroll ==
    /\ mode \in {"custom", "text"}
    /\ current_text \in TextPayloads
    /\ screen_idx = 0
    /\ custom_data = [t \in Topics |->
                        IF t = TopicMode THEN mode
                        ELSE IF t = TopicText THEN current_text
                        ELSE None]
    /\ brightness = DEFAULT_BRIGHTNESS
    /\ screen_on = TRUE
    /\ scroll_y = 0 /\ scroll_direction = 1 /\ scroll_wait = INITIAL_PAUSE
    /\ text_scroll_y = 0 /\ text_scroll_direction = 1
    /\ text_scroll_wait = INITIAL_PAUSE
    /\ running = TRUE
    /\ pc = "loop"
    /\ loop_start = 0
    /\ last_screen_change = 0
    /\ current_screen = "system"
    /\ total_h = 0
    /\ reg = 0
    /\ now = 0
    /\ msg = NoMsg
    /\ mqtt_thread = 0
    /\ mqtt_alive = TRUE
    /\ mqtt_connected = TRUE
    /\ published = Status(mode, brightness, screen_on, screen_idx)
    /\ system_cache = NoInfo /\ system_cache_time = 0
    /\ network_cache = NoInfo /\ network_cache_time = 0
    /\ info = NoInfo
    /\ oled_contrast = DEFAULT_BRIGHTNESS
    /\ oled_visible = TRUE
    /\ oled_image = "blank"
    /\ canvas = None
    /\ evCount = 2
    /\ faults = 0
    /\ advances = 0
    /\ advancedAt = 0
    /\ cadenceOK = TRUE
    /\ hideCalls = 0 /\ hideOK = 0 /\ offDrawn = FALSE

NextScroll ==
    \/ Tick
    \/ Sleep({0}, 0)

SpecScroll == InitScroll /\ [][NextScroll]_vars

\* SpecRace: as SpecScroll, with text messages arriving at any point of a
\* tick.
NextRace ==
    \/ Tick
    \/ Sleep({0}, 0)
    \/ Publish([topic : {TopicText}, payload : TextPayloads],
               2 + MaxRaceEvents)
    \/ OnMessage

SpecRace == InitScroll /\ [][NextRace]_vars

\* SpecPower: the mode goes to off and back, with a message of each other
\* kind in between, while the clock stands still.
PowerMessages ==
    [topic : {TopicMode}, payload : {"off", "custom"}]
    \cup [topic : {TopicText}, payload : {"hi"}]
    \cup [topic : {TopicBrightness}, payload : {"128"}]
    \cup [topic : {TopicCustom}, payload : {"21"}]

NextPower ==
    \/ Tick
    \/ Sleep({0}, 0)
    \/ OnConnect
    \/ Publish(PowerMessages, MaxPowerEvents)
    \/ OnMessage

SpecPower == Init /\ [][NextPower]_vars

\* SpecIdx: the rotation runs while the mode leaves auto and returns, and
\* text and brightness messages arrive.
IdxMessages ==
    [topic : {TopicMode}, payload : {"auto", "custom"}]
    \cup [topic : {TopicText}, payload : {"hi"}]
    \cup [topic : {TopicBrightness}, payload : {"128"}]

NextIdx ==
    \/ Tick
    \/ Sleep({0, MaxDelay}, MaxRotTime)
    \/ OnConnect
    \/ Publish(IdxMessages, MaxIdxEvents)
    \/ OnMessage

SpecIdx == Init /\ [][NextIdx]_vars

\* Line 63: DEFAULT_BRIGHTNESS is int(os.getenv('DEFAULT_BRIGHTNESS', 255)),
\* any integer the environment names.
ConfiguredBrightness == {DEFAULT_BRIGHTNESS, 128, 300, -5}

\* SpecBright: SpecPower started from the constructor run with each
\* configured default.  Line 390 stores the configured value as it is; the
\* _set_brightness call of line 394 stores and applies the clamped value
\* when oled.contrast returns, and when it raises it leaves the stored
\* value and the contrast the panel was opened with.
InitBright ==
    /\ mode = "auto"
    /\ screen_idx = 0
    /\ custom_data = [t \in Topics |-> None]
    /\ current_text = ""
    /\ \E d \in ConfiguredBrightness :
        \/ /\ brightness = Clamp(d)
           /\ oled_contrast = Clamp(d)
           /\ faults = 0
        \/ /\ brightness = d
           /\ oled_contrast \in {0, MAX_BRIGHTNESS}
           /\ faults = 1
    /\ screen_on = TRUE
    /\ scroll_y = 0 /\ scroll_direction = 1 /\ scroll_wait = 0
    /\ text_scroll_y = 0 /\ text_scroll_direction = 1 /\ text_scroll_wait = 0
    /\ running = TRUE
    /\ pc = "loop"
    /\ loop_start = 0
    /\ last_screen_change = 0
    /\ current_screen = "system"
    /\ total_h = 0
    /\ reg = 0
    /\ now = 0
    /\ msg = NoMsg
    /\ mqtt_thread = 0
    /\ mqtt_alive = TRUE
    /\ mqtt_connected = FALSE
    /\ published = NoStatus
    /\ system_cache = NoInfo /\ system_cache_time = 0
    /\ network_cache = NoInfo /\ network_cache_time = 0
    /\ info = NoInfo
    /\ oled_visible = TRUE
    /\ oled_image = "blank"
    /\ canvas = None
    /\ evCount = 0
    /\ advances = 0
    /\ advancedAt = 0
    /\ cadenceOK = TRUE
    /\ hideCalls = 0 /\ hideOK = 0 /\ offDrawn = FALSE

SpecBright == InitBright /\ [][NextPower]_vars

\* ------------------------------------------------------------ properties
\* The step in which _on_message handles a message of the topic.
Handled(topic) == msg.topic = topic /\ msg' = NoMsg

\* C1, as claimed: handling a mode message whose payload is one of the
\* seven mode names leaves mode equal to it and scroll_y and text_scroll_y
\* at 0, also when it names the mode already in force.
C1_ModeEventAlwaysResets ==
    [][(Handled(TopicMode) /\ msg.payload \in ModeNames)
        => (mode' = msg.payload /\ scroll_y' = 0 /\ text_scroll_y' = 0)]_vars

\* C1, amended: handling a mode message whose payload is one of the seven
\* mode names sets mode to it; when it differs from the mode in force the
\* handler sets scroll_y and text_scroll_y to 0, and when it names the mode
\* in force the handler leaves both scroll states as they are.
C1_ModeEventResetsOnChange ==
    [][(Handled(TopicMode) /\ msg.payload \in ModeNames)
        => /\ mode' = msg.payload
           /\ IF msg.payload # mode
              THEN scroll_y' = 0 /\ text_scroll_y' = 0
              ELSE UNCHANGED <<scrollV, scrollT>>]_vars

\* A mode message has taken the controller from text mode, with the text
\* scrolled, to another mode that starts with both offsets at 0.
C1_Witness ==
    /\ evCount = 3 /\ msg = NoMsg
    /\ current_text = LongText
    /\ mode = "custom" /\ custom_data[TopicMode] = "custom"
    /\ text_scroll_y = 0 /\ text_scroll_wait = INITIAL_PAUSE
    /\ scroll_y = 0 /\ scroll_wait = INITIAL_PAUSE

\* C2: handling a mode message whose payload is none of the seven mode
\* names leaves mode, rotation index, both scroll states, text buffer,
\* brightness and screen_on unchanged.
C2_UnknownModeIgnored ==
    [][(Handled(TopicMode) /\ msg.payload \notin ModeNames)
        => UNCHANGED <<mode, screen_idx, scrollV, scrollT, current_text,
                       brightness, screen_on>>]_vars

Successor ==
    [s \in {"system", "network", "custom", "qr"} |->
        CASE s = "system" -> "network"
          [] s = "network" -> "custom"
          [] s = "custom" -> "qr"
          [] s = "qr" -> "system"]

\* C4: the screen a tick resolves, and then paints, depends on the mode and
\* the rotation index alone: in auto mode it is the entry of the rotation
\* set at the index, in any other mode the mode itself; the index moves only
\* at the top of a tick, and an advance takes the resolved screen to its
\* successor in the order system, network, custom, qr, system.
C4_ScreenIsModeOrRotation ==
    [][/\ (pc = "loop" /\ pc' = "scroll")
            => current_screen' =
                 (IF mode = "auto" THEN screens[screen_idx' + 1] ELSE mode)
       /\ screen_idx' # screen_idx
            => /\ pc = "loop" /\ mode = "auto"
               /\ screens[screen_idx' + 1] = Successor[screens[screen_idx + 1]]
       /\ (pc = "render" /\ pc' = "flush")
            => canvas' = (IF current_screen \in DOMAIN Successor \cup {"text"}
                          THEN current_screen ELSE "blank")
      ]_vars

\* The fourth advance has wrapped the rotation to its first screen, which
\* the tick has resolved and committed to the panel.
C4_Witness ==
    /\ mode = "auto" /\ advances = 4 /\ screen_idx = 0
    /\ current_screen = "system" /\ oled_image = "system" /\ pc = "sleep"

\* C5, as claimed: once a mode message has set the mode to off and a frame
\* with the off target has been dispatched, oled.hide() has been called
\* exactly once since the message, for as long as the mode stays off.
C5_HideExactlyOnce ==
    (mode = "off" /\ offDrawn) => hideCalls = 1

\* C5, amended: while the mode stays off, a frame calls oled.hide() exactly
\* when its target is off and screen_on is still true, so not at all when
\* the display was already off when the message came, and again on the next
\* tick when the call raised; once a call has returned, no later frame
\* calls it again.
C5_HideWhileScreenOn ==
    [][(mode = "off" /\ mode' = "off")
        => /\ hideCalls' \in {hideCalls, hideCalls + 1}
           /\ hideCalls' # hideCalls
                => (pc = "power" /\ current_screen = "off" /\ screen_on
                    /\ hideOK = 0)
           /\ (pc = "power" /\ pc' = "sleep" /\ screen_on)
                => hideCalls' = hideCalls + 1
           /\ hideOK' <= 1
           /\ hideOK' = 1 => ~screen_on'
      ]_vars

\* The mode was set to off while the display was still off from an earlier
\* off period: the off frame has been dispatched and hide was not called.
C5_Witness ==
    /\ mode = "off" /\ offDrawn /\ pc = "sleep"
    /\ hideCalls = 0 /\ ~screen_on /\ ~oled_visible

\* C6: a tick whose resolved target is off never reaches the canvas: it
\* neither acquires the drawing surface nor calls a renderer nor commits.
C6_OffDrawsNothing ==
    current_screen = "off" => (pc \notin {"render", "flush"} /\ canvas = None)

\* A tick with the off target has run to its sleep and the panel is dark,
\* still holding the frame committed before.
C6_Witness ==
    /\ current_screen = "off" /\ pc = "sleep"
    /\ ~screen_on /\ ~oled_visible /\ oled_image = "system"

\* The value each integer payload is to end as.
ExpectedBrightness ==
    [p \in {"999", "-10", "128", "+7"} |->
        CASE p = "999" -> 255 [] p = "-10" -> 0 [] p = "128" -> 128
          [] p = "+7" -> 7]

\* C7, as claimed: a brightness message whose payload is an integer leaves
\* that integer, clamped to 0..255, applied to the panel and stored; any
\* other payload leaves the stored brightness and the panel as they were.
C7_BrightnessAlwaysStored ==
    [][Handled(TopicBrightness)
        => IF msg.payload \in DOMAIN ExpectedBrightness
           THEN /\ brightness' = ExpectedBrightness[msg.payload]
                /\ oled_contrast' = ExpectedBrightness[msg.payload]
           ELSE UNCHANGED <<brightness, oled_contrast>>]_vars

\* C7, amended: a brightness message whose payload is an integer calls
\* oled.contrast with that integer clamped to 0..255 and, when the call
\* returns, stores it; when the call raises, the stored brightness is
\* unchanged.  Any other payload leaves the stored brightness unchanged
\* and makes no panel call.
C7_BrightnessStoredIfApplied ==
    [][Handled(TopicBrightness)
        => IF msg.payload \in DOMAIN ExpectedBrightness
           THEN \/ /\ brightness' = ExpectedBrightness[msg.payload]
                   /\ oled_contrast' = ExpectedBrightness[msg.payload]
                   /\ faults' = faults
                \/ /\ faults' = faults + 1
                   /\ UNCHANGED <<brightness, oled_contrast>>
           ELSE UNCHANGED <<brightness, oled_contrast, faults>>]_vars

\* The payload "-10" has been applied and stored as 0.
C7_Witness ==
    /\ custom_data[TopicBrightness] = "-10"
    /\ brightness = 0 /\ oled_contrast = 0 /\ faults = 0

\* C8: handling a text message replaces the text buffer by the payload,
\* sets the text scroll state to offset 0, direction +1, pause 20, and
\* leaves the mode, the rotation index and the custom scroll state alone.
C8_TextEventResetsTextScroll ==
    [][(Handled(TopicText) /\ msg.payload # BadBytes)
        => /\ current_text' = msg.payload
           /\ text_scroll_y' = 0 /\ text_scroll_direction' = 1
           /\ text_scroll_wait' = INITIAL_PAUSE
           /\ UNCHANGED <<mode, screen_idx, scrollV>>]_vars

\* In custom mode, with the custom lines scrolled on, a text message has
\* put the long text in the buffer: the text scroll state is the reset one
\* and the custom offset is kept.
C8_Witness ==
    /\ mode = "custom" /\ evCount = 2 /\ msg = NoMsg
    /\ custom_data[TopicText] = LongText /\ current_text = LongText
    /\ text_scroll_y = 0 /\ text_scroll_direction = 1
    /\ text_scroll_wait = INITIAL_PAUSE
    /\ scroll_y > 0 /\ pc = "sleep"

\* C9: when a renderer, the telemetry read or the commit of the frame
\* raises, the loop goes on: either the frame is still committed (the
\* monitor answered with its cache or placeholder) or the canvas is dropped
\* and the loop reaches its sleep; it keeps running and the mode and the
\* rotation index are the ones from before the frame.
C9_FrameErrorContained ==
    [][(pc \in {"render", "flush"} /\ pc' # pc /\ faults' # faults)
        => /\ running'
           /\ pc' \in {"flush", "sleep"}
           /\ pc' = "flush" => canvas' = current_screen
           /\ pc' = "sleep" => canvas' = None
           /\ mode' = mode /\ screen_idx' = screen_idx]_vars

\* The first frame failed: nothing was committed and the loop sleeps
\* before its next tick.
C9_Witness ==
    /\ faults = 1 /\ evCount = 0 /\ running
    /\ pc = "sleep" /\ current_screen = "system"
    /\ canvas = None /\ oled_image = "blank"
    /\ mode = "auto" /\ screen_idx = 0

\* C10: when the shutdown signal has stopped the process, the loop is
\* between two ticks: the tick the signal met has run to its end.
C10_StopsBetweenTicks ==
    ~running => pc \in {"loop", "sleep"}

\* C11: a loop iteration that finds the ingress thread not alive makes
\* and starts a new thread (or ends in the handler of line 498 when the
\* start raises, and tries again on the next iteration); with the loop
\* taking its steps, whenever the thread is not alive while the controller
\* runs, a thread is alive again later, or the controller has been stopped.
C11_WatchdogRestartsIngress ==
    /\ [][(running /\ pc = "loop" /\ pc' # "loop" /\ ~mqtt_alive)
            => /\ mqtt_thread' = mqtt_thread + 1
               /\ mqtt_alive' \/ faults' = faults + 1]_vars
    /\ (running /\ ~mqtt_alive) ~> (mqtt_alive \/ ~running)

\* The first thread died and the next iteration has started the second.
C11_Witness ==
    running /\ mqtt_thread = 1 /\ mqtt_alive /\ pc = "scroll"

\* The four fields of the status snapshot, as a consumer of the status
\* topic is to see them.
StatusNow ==
    [mode |-> mode, brightness |-> brightness, screen_on |-> screen_on,
     current_screen |-> IF mode = "auto" THEN screens[screen_idx + 1] ELSE mode]

\* C12, as claimed: every step that changes one of mode, brightness,
\* screen_on and the current screen emits the snapshot of the new values
\* on the status topic.
C12_StatusOnEveryChange ==
    [][StatusNow' # StatusNow => published' = StatusNow']_vars

\* C12, amended: a step that changes one of the four fields hands the
\* snapshot of the new values to the client when mqtt_connected is set and
\* emits nothing when it is clear; the step in which the connection is
\* made emits the snapshot of the values then in force.
C12_StatusWhileConnected ==
    [][/\ StatusNow' # StatusNow
            => published' = (IF mqtt_connected THEN StatusNow' ELSE NoStatus)
       /\ (~mqtt_connected /\ mqtt_connected') => published' = StatusNow
      ]_vars

\* With the connection up, the first rotation advance has emitted the
\* snapshot that names the network screen.
C12_Witness ==
    /\ mqtt_connected /\ advances = 1 /\ pc = "scroll"
    /\ published = [mode |-> "auto", brightness |-> DEFAULT_BRIGHTNESS,
                    screen_on |-> TRUE, current_screen |-> "network"]

\* C13: once a refresh-interval message whose payload is a positive
\* integer N has been handled, a rotation decision in auto mode advances
\* when more than N seconds have passed since the last advance and does
\* not advance when fewer than N have.
C13_RefreshIntervalApplied ==
    [][(/\ pc = "loop" /\ pc' = "scroll" /\ mode = "auto"
        /\ ParseInt(custom_data[TopicRefresh]).ok
        /\ ParseInt(custom_data[TopicRefresh]).val > 0)
        => LET N == ParseInt(custom_data[TopicRefresh]).val
               elapsed == now - last_screen_change
           IN  /\ elapsed > N => screen_idx' # screen_idx
               /\ elapsed < N => screen_idx' = screen_idx]_vars

\* C14: a step changes the rotation index by one place of the rotation
\* set at most, and only as an advance; an advance is made no sooner than
\* REFRESH_INTERVAL seconds after the advance before it (after the start,
\* for the first), however the ticks are spaced.
C14_AdvanceOncePerInterval ==
    [][/\ screen_idx' # screen_idx
            => /\ screen_idx' = (screen_idx + 1) % Len(screens)
               /\ advances' = advances + 1
       /\ advances' \in {advances, advances + 1}
       /\ advances' = advances + 1
            => /\ now - advancedAt >= REFRESH_INTERVAL
               /\ advancedAt' = now
               /\ screen_idx' # screen_idx
      ]_vars

\* The first advance was made by a tick that began 6 s after the start,
\* the second by a tick delayed by a further 6 s; the ticks that followed
\* within the same second counted the pause down and made no advance.
C14_Witness ==
    /\ advances = 2 /\ advancedAt = 12 /\ screen_idx = 2
    /\ now = 12 /\ loop_start = 12 /\ ~cadenceOK /\ pc = "sleep"
    /\ scroll_wait < INITIAL_PAUSE

\* The offset a move is to end at: one step on from y in direction d,
\* kept within 0..max_scroll.
Stepped(y, d, max_scroll) == Max(0, Min(max_scroll, y + d))

\* C15: the tick's read-modify-write of a pause counter or of a scroll
\* offset is not cut by an event: the store decrements the counter it
\* finds, or moves the offset it finds by one step, so a reset an event
\* has written is never overwritten by a value read before it.
C15_ResetNeverOverwritten ==
    [][/\ (pc = "wait_store" /\ pc' = "power")
            => IF current_screen = "custom"
               THEN scroll_wait' = scroll_wait - 1
               ELSE text_scroll_wait' = text_scroll_wait - 1
       /\ (pc = "move_store" /\ pc' = "power")
            => IF current_screen = "custom"
               THEN scroll_y' = Stepped(scroll_y, scroll_direction,
                                        total_h - visible_h)
               ELSE text_scroll_y' = Stepped(text_scroll_y,
                                             text_scroll_direction,
                                             total_h - visible_h)
      ]_vars

\* max_scroll of the content a frame draws: max(0, content - visible).
MaxScrollOf(content_height) == Max(0, content_height - visible_h)

\* C16: whenever a frame is about to be drawn, the offset the renderer of
\* the custom lines gets lies within 0..max_scroll of the custom lines, and
\* the offset the text renderer gets within 0..max_scroll of the text
\* buffer it draws.
C16_OffsetWithinDrawnContent ==
    pc = "render" =>
        /\ current_screen = "custom"
            => /\ 0 <= scroll_y
               /\ scroll_y <= MaxScrollOf(get_custom_content_height)
        /\ current_screen = "text"
            => /\ 0 <= text_scroll_y
               /\ text_scroll_y <= MaxScrollOf(get_text_content_height(current_text))

\* The start state of SpecScroll is one the program reaches: after the
\* connection, a text message and a mode message, before the first tick.
InitScrollReached ==
    /\ pc = "loop" /\ loop_start = 0 /\ oled_image = "blank" /\ faults = 0
    /\ mode = "text" /\ current_text = LongText /\ evCount = 2 /\ msg = NoMsg
    /\ custom_data[TopicMode] = "text" /\ custom_data[TopicText] = LongText
    /\ scrollV = <<0, 1, INITIAL_PAUSE>> /\ scrollT = <<0, 1, INITIAL_PAUSE>>
    /\ published = Status(mode, brightness, screen_on, screen_idx)
    /\ mqtt_connected /\ current_screen = "system" /\ total_h = 0 /\ reg = 0

\* max_scroll of the two scrolled screens, for tall content.
CustomMax == get_custom_content_height - visible_h
TextMax == get_text_content_height(current_text) - visible_h

\* The offset goes from y to y2 by one step at most, up only while the
\* direction d is +1 and down only while it is -1; the direction turns from
\* +1 to -1 only with the offset arriving at max_scroll, and from -1 to +1
\* only with it arriving at 0; the offset stays within 0..max_scroll.
BounceStep(y, d, y2, d2, max_scroll) ==
    /\ y2 - y \in {-1, 0, 1}
    /\ y2 > y => d = 1
    /\ y2 < y => d = -1
    /\ (d = 1 /\ d2 = -1) => (y2 = max_scroll /\ y = max_scroll - 1)
    /\ (d = -1 /\ d2 = 1) => (y2 = 0 /\ y = 1)
    /\ 0 <= y2 /\ y2 <= max_scroll

\* C17: with content taller than the visible area, from the reset state
\* the ticks move each offset up from 0 to max_scroll and, after the
\* pause, down again to 0, by one step at a time: the offset never leaves
\* 0..max_scroll and never goes from one end to the other in one step.
C17_ScrollBounces ==
    [][/\ CustomMax > 0
            => BounceStep(scroll_y, scroll_direction, scroll_y',
                          scroll_direction', CustomMax)
       /\ TextMax > 0
            => BounceStep(text_scroll_y, text_scroll_direction, text_scroll_y',
                          text_scroll_direction', TextMax)
      ]_vars

\* The custom lines have been scrolled to the end and back: the offset is
\* at 0 again with the pause of a turn armed.
C17_Witness ==
    /\ mode = "custom" /\ scroll_y = 0 /\ scroll_direction = 1
    /\ scroll_wait = BOUNCE_PAUSE /\ pc = "power"

\* One scroll state over a step of the loop: the direction changes only in
\* the store of a move that brings the offset to 0 or to max_scroll, to +1
\* at 0 and to -1 at max_scroll; every move that ends at a limit arms the
\* pause with BOUNCE_PAUSE; with the pause positive the tick loads the
\* counter and stores it less one, offset and direction as they were.
FlipAndPause(on_screen, y, d, w, y2, d2, w2, max_scroll) ==
    /\ d2 # d => /\ on_screen /\ pc = "move_store"
                 /\ y2 \in {0, max_scroll}
                 /\ d2 = (IF y2 = max_scroll THEN -1 ELSE 1)
    /\ (on_screen /\ pc = "move_store" /\ pc' = "power" /\ y2 \in {0, max_scroll})
            => (w2 = BOUNCE_PAUSE /\ d2 # d)
    /\ (on_screen /\ pc = "move_store" /\ pc' = "power" /\ y2 \notin {0, max_scroll})
            => (w2 = w /\ d2 = d)
    /\ (on_screen /\ pc = "scroll" /\ pc' # pc /\ w > 0)
            => (pc' = "wait_store" /\ y2 = y /\ d2 = d /\ w2 = w)
    /\ (on_screen /\ pc = "wait_store" /\ pc' = "power")
            => (w > 0 /\ w2 = w - 1 /\ y2 = y /\ d2 = d)

\* C18: for content taller than the visible area, the scroll direction
\* changes only on an advance that brings the offset to a limit (to -1 at
\* max_scroll, to +1 at 0), each such turn arms the pause counter with 30,
\* and while the counter is positive an advance takes one off it and
\* leaves offset and direction unchanged.
C18_FlipsAtLimitsArmPause ==
    [][/\ CustomMax > 0
            => FlipAndPause(current_screen = "custom",
                            scroll_y, scroll_direction, scroll_wait,
                            scroll_y', scroll_direction', scroll_wait',
                            CustomMax)
       /\ TextMax > 0
            => FlipAndPause(current_screen = "text",
                            text_scroll_y, text_scroll_direction,
                            text_scroll_wait, text_scroll_y',
                            text_scroll_direction', text_scroll_wait',
                            TextMax)
      ]_vars

\* At the end of the custom lines the direction is down and the first tick
\* of the pause has been counted, the offset still at max_scroll.
C18_Witness ==
    /\ mode = "custom" /\ scroll_y = CustomMax /\ scroll_direction = -1
    /\ scroll_wait = BOUNCE_PAUSE - 1 /\ pc = "power"

\* C19: when the content of the screen being scrolled is no taller than
\* the visible area, the tick's scroll advance sets the offset to 0 from
\* whatever it was and leaves the direction and the pause counter as they
\* were; with the offset at 0 already it changes nothing.
C19_ShortContentPinsOffset ==
    [][/\ (/\ pc = "scroll" /\ pc' # pc /\ current_screen = "text"
           /\ get_text_content_height(current_text) <= visible_h)
            => /\ text_scroll_y' = 0 /\ pc' = "power"
               /\ UNCHANGED <<text_scroll_direction, text_scroll_wait, scrollV>>
               /\ text_scroll_y = 0 => UNCHANGED scrollT
       /\ (/\ pc = "scroll" /\ pc' # pc /\ current_screen = "custom"
           /\ get_custom_content_height <= visible_h)
            => /\ scroll_y' = 0 /\ pc' = "power"
               /\ UNCHANGED <<scroll_direction, scroll_wait, scrollT>>
               /\ scroll_y = 0 => UNCHANGED scrollV
      ]_vars

\* A one-line text is in the buffer while the text scroll state was left
\* at the end of the six-line text, turned and paused; the advance has
\* pinned the offset to 0 and kept direction -1 and pause 30.
C19_Witness ==
    /\ current_screen = "text" /\ current_text = "hi" /\ pc = "power"
    /\ text_scroll_y = 0 /\ text_scroll_direction = -1
    /\ text_scroll_wait = BOUNCE_PAUSE

\* The cache interval of the monitor read by the screen being drawn.
IntervalOf(screen_name) ==
    IF screen_name = "system" THEN SYSTEM_CACHE_INTERVAL
    ELSE NETWORK_CACHE_INTERVAL

\* C20, as claimed: a snapshot handed to the system or network renderer by
\* a cached read is never older than the cache interval of its monitor: it
\* is a placeholder or it was collected less than the interval ago, also
\* when the collection failed.
C20_SnapshotWithinInterval ==
    (pc = "flush" /\ info.kind = "data")
        => now - info.at < IntervalOf(current_screen)

\* C20, amended: a cached read returns the cache entry while it is younger
\* than the interval; from then on it returns a snapshot collected at the
\* time of the read and stores it, except that a system read whose
\* collection fails returns the entry the cache holds, whatever its age, and
\* the placeholder only when the cache holds none, leaving the cache as it
\* was.  A network read has no failing collection: it always stores and
\* returns a snapshot of the time of the read.
C20_ExpiredEntryOnlyOnFailure ==
    [][(pc = "render" /\ pc' = "flush")
        => /\ current_screen = "system" =>
                IF system_cache # NoInfo
                   /\ now - system_cache_time < SYSTEM_CACHE_INTERVAL
                THEN /\ info' = system_cache
                     /\ UNCHANGED <<system_cache, system_cache_time, faults>>
                ELSE \/ /\ info' = Snapshot(now)
                        /\ system_cache' = info'
                        /\ system_cache_time' = now
                        /\ UNCHANGED faults
                     \/ /\ faults' = faults + 1
                        /\ info' = (IF system_cache = NoInfo THEN Placeholder
                                    ELSE system_cache)
                        /\ UNCHANGED <<system_cache, system_cache_time>>
           /\ current_screen = "network" =>
                IF network_cache # NoInfo
                   /\ now - network_cache_time < NETWORK_CACHE_INTERVAL
                THEN /\ info' = network_cache
                     /\ UNCHANGED <<network_cache, network_cache_time, faults>>
                ELSE /\ info' = Snapshot(now)
                     /\ network_cache' = info'
                     /\ network_cache_time' = now
           /\ (info'.kind = "data" /\ faults' = faults)
                => now - info'.at < IntervalOf(current_screen)
           /\ system_cache' # NoInfo => system_cache'.at = system_cache_time'
           /\ network_cache' # NoInfo => network_cache'.at = network_cache_time'
      ]_vars

\* The system renderer has been handed the cache entry although its age
\* has reached the interval: the collection of this read failed.
C20_Witness ==
    /\ pc = "flush" /\ current_screen = "system"
    /\ info.kind = "data" /\ info = system_cache
    /\ now - info.at >= SYSTEM_CACHE_INTERVAL

\* C21: screen_on changes only in the power step of a tick, to false when
\* the target the tick resolved is off and to true when it is not; the
\* handler of a mode, text, brightness or custom-data message leaves
\* screen_on and the power state of the panel as they are, and the power
\* state of the panel changes in no other step either.
C21_PowerChangesOnlyOnTick ==
    [][/\ screen_on' # screen_on
            => /\ pc = "power" /\ pc' # pc
               /\ screen_on' = (current_screen # "off")
       /\ oled_visible' # oled_visible
            => /\ pc = "power" /\ pc' # pc
               /\ oled_visible' = screen_on'
       /\ (msg # NoMsg /\ msg' = NoMsg)
            => UNCHANGED <<screen_on, oled_visible>>
      ]_vars

\* A brightness message and then the mode message off have been handled
\* with the display on; the power step of the tick that resolved off has
\* switched it off and published the status.
C21_Witness ==
    /\ pc = "sleep" /\ mode = "off" /\ current_screen = "off"
    /\ brightness = 128 /\ custom_data[TopicBrightness] = "128"
    /\ ~screen_on /\ ~oled_visible
    /\ published = Status(mode, brightness, FALSE, screen_idx)

\* C22: in every state from the end of the constructor on, the stored
\* brightness is an integer from 0 to 255.
C22_BrightnessInRange ==
    brightness \in 0..MAX_BRIGHTNESS

\* C23: the power step of a tick whose panel call does not raise leaves
\* screen_on false exactly when the target the tick resolved is off, and
\* goes on to draw exactly when it is not; screen_on then stays as it is
\* while the frame is drawn and committed, to the end of the tick.  So a
\* frame of such a tick is drawn with screen_on true, and the first tick
\* after the mode left off switches the display on before it draws.
C23_ScreenOnFollowsTarget ==
    [][/\ (pc = "power" /\ pc' # pc /\ faults' = faults)
            => /\ screen_on' = (current_screen # "off")
               /\ oled_visible' = screen_on'
               /\ pc' = (IF current_screen = "off" THEN "sleep" ELSE "render")
       /\ (pc = "power" /\ pc' # pc) => (pc' = "sleep") = (current_screen = "off")
       /\ (pc \in {"render", "flush"} \/ (pc = "sleep" /\ pc' = pc))
            => UNCHANGED <<screen_on, oled_visible, current_screen>>
       /\ canvas' # canvas => (pc = "render" \/ pc = "flush")
       /\ oled_image' # oled_image => pc = "flush"
      ]_vars

\* The mode was off and the display switched off; a mode message named the
\* custom screen, and the power step of the next tick has switched the
\* display on and is about to draw.
C23_Witness ==
    /\ pc = "render" /\ mode = "custom" /\ current_screen = "custom"
    /\ evCount = MaxPowerEvents /\ faults = 0
    /\ screen_on /\ oled_visible
    /\ published = Status(mode, brightness, TRUE, screen_idx)

\* C24: the rotation index is always a valid index into the rotation set;
\* it changes only at the top of a tick taken while the mode is auto, to
\* the next index modulo the length of the set; the handler of a mode, text
\* or brightness message and every step of a tick in another mode leave it
\* as it is, so the index found on the return to auto is the one left.
C24_IndexMovesOnlyInAuto ==
    [][/\ screen_idx \in 0..(Len(screens) - 1)
       /\ screen_idx' \in 0..(Len(screens) - 1)
       /\ screen_idx' # screen_idx
            => /\ pc = "loop" /\ pc' = "scroll" /\ mode = "auto"
               /\ screen_idx' = (screen_idx + 1) % Len(screens)
       /\ (msg # NoMsg /\ msg' = NoMsg) => screen_idx' = screen_idx
       /\ mode # "auto" => screen_idx' = screen_idx
      ]_vars

\* The rotation has advanced once; two mode messages, the second naming
\* auto, have each changed the mode, so the mode left auto and returned; a
\* tick has begun after the advance, and the index is still 1.
C24_Witness ==
    /\ mode = "auto" /\ evCount = MaxIdxEvents /\ msg = NoMsg
    /\ custom_data[TopicMode] = "auto"
    /\ custom_data[TopicText] = None /\ custom_data[TopicBrightness] = None
    /\ text_scroll_wait = INITIAL_PAUSE
    /\ advances = 1 /\ screen_idx = 1 /\ loop_start > advancedAt
    /\ published = Status("auto", brightness, screen_on, 1)

====
